---- MODULE Spec2Model ----
(***************************************************************************)
(* The policy store of the RBAC LSM (security/rbac/rbacdb.c): the list of  *)
(* roles, the list of permissions, the slot table of every role and the    *)
(* reference counts, driven by the eight exported operations.              *)
(***************************************************************************)
EXTENDS Integers, Sequences, FiniteSets, TLC

(***************************************************************************)
(* Bounds.  ROLE_NAME_LEN and ROLE_MAX_PERMS come from rbac.h; the model   *)
(* runs them scaled down.                                                  *)
(***************************************************************************)
ROLE_NAME_LEN == 2
ROLE_MAX_PERMS == 2
MaxRoles == 2
MaxPerms == 2
MaxPermId == 2
MaxRef == ROLE_MAX_PERMS + 1

(***************************************************************************)
(* Program constants.                                                      *)
(***************************************************************************)
EINVAL == 22
ENOMEM == 12
INT_MAX == 2147483647

NULL == 0
\* the null rbac_obj_t (strings and integers do not compare)
NULL_OBJ == "(null)"
ACC_ACCEPT == "ACC_ACCEPT"
ACC_DENY == "ACC_DENY"
OP_READ == "OP_READ"
OP_WRITE == "OP_WRITE"

\* static const char *acceptability_name[]
acceptability_name == [a \in {ACC_ACCEPT, ACC_DENY} |->
                         IF a = ACC_ACCEPT THEN "accept" ELSE "deny"]

\* static const char *operation_name[]
operation_name == [o \in {OP_READ, OP_WRITE} |->
                     IF o = OP_READ THEN "read" ELSE "write"]

(***************************************************************************)
(* Inputs.                                                                 *)
(***************************************************************************)
AllNames == {"a", "b", "abc", "abcd"}
\* names that fit char name[ROLE_NAME_LEN] with their terminating NUL
Names == {n \in AllNames : Len(n) < ROLE_NAME_LEN}
LongNames == AllNames \ Names
\* the rules rbac_add_permission is called with: <<acc, op, obj>>
Rules == {<<ACC_DENY, OP_WRITE, "/etc/shadow">>, <<ACC_ACCEPT, OP_READ, NULL_OBJ>>}
PermIds == (-1)..(MaxPermId - 1)
Slots == 0..(ROLE_MAX_PERMS - 1)
\* addresses kzalloc can hand out for a struct rbac_permission
Addrs == 1..MaxPerms

VARIABLES
    rbac_roles,     \* the role list: sequence of struct rbac_role, head first
    rbac_perms,     \* the permission list: sequence of addresses, head first
    heap,           \* Addrs -> struct rbac_permission (or the freed cell)
    next_perm_id,   \* static int next_perm_id
    call,           \* the operation last called and its arguments
    ret,            \* its return value
    buf,            \* the text it wrote to the caller's buffer
    issued,         \* history: the ids handed out by rbac_add_permission
    oops,           \* the kernel trapped inside the last call
    snap,           \* history: after a successful rbac_bind_permission the
                    \* store before it, after the unbind that undoes it
                    \* <<that store>>, NoSnap after any other call
    task            \* the calls in flight when callers are not serialized

vars == <<rbac_roles, rbac_perms, heap, next_perm_id, call, ret, buf, issued,
          oops, snap, task>>
store == <<rbac_roles, rbac_perms, heap, next_perm_id>>

\* struct rbac_permission
rbac_permission(id, acc, op, obj, ref) ==
    [id |-> id, acc |-> acc, op |-> op, obj |-> obj, ref |-> ref]

\* a cell kfree() has released
FreeCell == [id |-> -1, acc |-> ACC_ACCEPT, op |-> OP_READ, obj |-> NULL_OBJ, ref |-> 0]

\* a role left with the count kzalloc gave it
rbac_role_unset(name, perms, ref) == [name |-> name, perms |-> perms, ref |-> 0]

\* struct rbac_role
rbac_role(name, perms, ref) == [name |-> name, perms |-> perms, ref |-> ref]

Call(op, id, name) == [op |-> op, id |-> id, name |-> name]

\* n++ on an int as the kernel builds it (-fno-strict-overflow: it wraps)
IntInc(n) == IF n = INT_MAX THEN -INT_MAX - 1 ELSE n + 1

\* list_for_each_entry with an early return: the first position of seq s
\* among the matching positions S, NULL (0) when the walk reaches the head
FirstOf(S) == IF S = {} THEN NULL ELSE CHOOSE i \in S : \A j \in S : i <= j

\* a lookup that looks at the first entry of the list only
rbac_get_role_by_name_head(name) ==
    IF Len(rbac_roles) > 0 /\ rbac_roles[1].name = name THEN 1 ELSE NULL

\* index in rbac_roles of the first role called name, NULL (0) if none
rbac_get_role_by_name(name) ==
    FirstOf({i \in 1..Len(rbac_roles) : rbac_roles[i].name = name})

\* address of the first permission with this id, NULL if none
rbac_get_perm_by_id(id) ==
    IF id < 0 THEN NULL
    ELSE LET i == FirstOf({j \in 1..Len(rbac_perms) : heap[rbac_perms[j]].id = id})
         IN  IF i = NULL THEN NULL ELSE rbac_perms[i]

\* list_del: the sequence without its i-th element
list_del(s, i) == SubSeq(s, 1, i - 1) \o SubSeq(s, i + 1, Len(s))

\* address a is on the permission list perms
OnList(perms, a) == \E k \in 1..Len(perms) : perms[k] = a

\* addresses not currently allocated
FreeAddrs == {a \in Addrs : \A i \in 1..Len(rbac_perms) : rbac_perms[i] # a}

\* the cell a successful kzalloc(sizeof(struct rbac_permission)) returns:
\* free cells are interchangeable, the allocator hands out the lowest
kzalloc == CHOOSE a \in FreeAddrs : \A b \in FreeAddrs : a <= b

\* no successful bind to look back on
NoSnap == <<>>

\* the callers that may run at the same time
Tasks == {1, 2}

\* a caller that is not inside a call; ret is what its last call returned
Idle(op, id, name, r) ==
    [pc |-> "idle", op |-> op, id |-> id, name |-> name, ret |-> r,
     perm |-> NULL, role |-> NULL, i |-> 0]

Init ==
    /\ snap = NoSnap
    /\ task = [t \in Tasks |-> Idle("init", -1, "", 0)]
    /\ rbac_roles = <<>>
    /\ rbac_perms = <<>>
    /\ heap = [a \in Addrs |-> FreeCell]
    /\ next_perm_id = 0
    /\ call = Call("init", -1, "")
    /\ ret = 0
    /\ buf = ""
    /\ issued = <<>>
    /\ oops = FALSE

\* what a call that does not render text leaves in the caller's hands
NoText == buf' = ""

\* strcpy(new_role->name, name) into char name[ROLE_NAME_LEN], read back as
\* a string after the rest of the initialisation.  A name that fits is
\* stored as it is.  A longer one overruns the field: a fortified build
\* traps, any other build writes on into the padding, perms[], ref and
\* entry, which the following statements overwrite, so the field reads as
\* the name cut somewhere at or after the end of the array.
strcpy(name) ==
    IF Len(name) < ROLE_NAME_LEN
    THEN {[trap |-> FALSE, name |-> name]}
    ELSE {[trap |-> TRUE, name |-> ""]} \cup
         {[trap |-> FALSE, name |-> SubSeq(name, 1, k)] :
             k \in ROLE_NAME_LEN..Len(name)}

rbac_add_role(name) ==
    /\ ~oops
    /\ UNCHANGED task
    /\ snap' = NoSnap
    /\ UNCHANGED <<rbac_perms, heap, next_perm_id, issued>>
    /\ IF rbac_get_role_by_name(name) # NULL
       THEN /\ ret' = -EINVAL
            /\ call' = Call("add_role", -1, name)
            /\ NoText
            /\ UNCHANGED <<rbac_roles, oops>>
       ELSE \/ \* kzalloc returns NULL
               /\ ret' = -ENOMEM
               /\ call' = Call("add_role", -1, name)
               /\ NoText
               /\ UNCHANGED <<rbac_roles, oops>>
            \/ /\ Len(rbac_roles) < MaxRoles
               /\ \E c \in strcpy(name) :
                    IF c.trap
                    THEN /\ oops' = TRUE
                         /\ call' = Call("add_role", -1, name)
                         /\ UNCHANGED <<rbac_roles, ret, buf>>
                    ELSE /\ rbac_roles' = Append(rbac_roles,
                               rbac_role(c.name, [i \in Slots |-> NULL], 1))
                         /\ ret' = 0
                         /\ call' = Call("add_role", -1, name)
                         /\ NoText
                         /\ UNCHANGED oops

\* a removal that gives back the references held in the slots of the role
heap_after_put(role) ==
    [a \in Addrs |->
        [heap[a] EXCEPT !.ref = @ - Cardinality({i \in Slots : role.perms[i] = a})]]

\* the permission cells after list_del(&role->entry); kfree(role): nothing
\* is done to the permissions in role->perms[]
heap_after_kfree(role) == heap

rbac_remove_role(name) ==
    /\ ~oops
    /\ UNCHANGED task
    /\ snap' = NoSnap
    /\ call' = Call("remove_role", -1, name)
    /\ NoText
    /\ UNCHANGED <<rbac_perms, next_perm_id, issued, oops>>
    /\ LET role == rbac_get_role_by_name(name)
       IN  IF role = NULL
           THEN /\ ret' = -EINVAL
                /\ UNCHANGED <<rbac_roles, heap>>
           ELSE IF rbac_roles[role].ref # 1
           THEN /\ ret' = -EINVAL
                /\ UNCHANGED <<rbac_roles, heap>>
           ELSE /\ rbac_roles' = list_del(rbac_roles, role)
                /\ heap' = heap_after_kfree(rbac_roles[role])
                /\ ret' = 0

RECURSIVE PermLines(_, _)
\* the body of the for loop of rbac_get_roles_info, from slot i on
PermLines(role, i) ==
    IF i >= ROLE_MAX_PERMS THEN ""
    ELSE (IF role.perms[i] # NULL
          THEN "\n\tperm[" \o ToString(i) \o "]"
          ELSE "") \o PermLines(role, i + 1)

\* the value of i when that for loop is left: it has no break
LoopExit(role) == ROLE_MAX_PERMS

\* the text rbac_get_roles_info writes for one role
RoleInfo(role) ==
    role.name \o PermLines(role, 0)
    \o (IF LoopExit(role) = ROLE_MAX_PERMS
        THEN " with no permission bind" ELSE "")
    \o "\n"

RECURSIVE RolesInfo(_)
\* list_for_each_entry over rbac_roles, from position k on
RolesInfo(k) ==
    IF k > Len(rbac_roles) THEN ""
    ELSE RoleInfo(rbac_roles[k]) \o RolesInfo(k + 1)

rbac_get_roles_info ==
    /\ ~oops
    /\ UNCHANGED task
    /\ snap' = NoSnap
    /\ call' = Call("get_roles_info", -1, "")
    /\ buf' = RolesInfo(1)
    /\ ret' = 0
    /\ UNCHANGED <<rbac_roles, rbac_perms, heap, next_perm_id, issued, oops>>

\* an id taken from the length of the list
new_perm_id_by_count == Len(rbac_perms)

\* the id given to a new permission: next_perm_id++
new_perm_id == next_perm_id

rbac_add_permission(acc, op, obj) ==
    /\ ~oops
    /\ UNCHANGED task
    /\ snap' = NoSnap
    /\ call' = Call("add_permission", -1, "")
    /\ NoText
    /\ UNCHANGED <<rbac_roles, oops>>
    /\ \/ \* kzalloc returns NULL
          /\ ret' = -ENOMEM
          /\ UNCHANGED <<rbac_perms, heap, next_perm_id, issued>>
       \/ /\ next_perm_id < MaxPermId
          /\ FreeAddrs # {}
          /\ LET new_perm == kzalloc
             IN  /\ heap' = [heap EXCEPT ![new_perm] =
                              rbac_permission(new_perm_id, acc, op, obj, 1)]
                 /\ rbac_perms' = Append(rbac_perms, new_perm)
          /\ issued' = Append(issued, new_perm_id)
          /\ next_perm_id' = IntInc(next_perm_id)
          /\ ret' = 0

\* a busy check that lets every permission go
perm_busy_never(perm) == FALSE

\* a busy check that holds every permission back
perm_busy_always(perm) == TRUE

\* refcount_read(&perm->ref) != 1
perm_busy(perm) == heap[perm].ref # 1

rbac_remove_permission(id) ==
    /\ ~oops
    /\ UNCHANGED task
    /\ snap' = NoSnap
    /\ call' = Call("remove_permission", id, "")
    /\ NoText
    /\ UNCHANGED <<rbac_roles, next_perm_id, issued, oops>>
    /\ LET perm == rbac_get_perm_by_id(id)
       IN  IF perm = NULL
           THEN /\ ret' = -EINVAL
                /\ UNCHANGED <<rbac_perms, heap>>
           ELSE IF perm_busy(perm)
           THEN /\ ret' = -EINVAL
                /\ UNCHANGED <<rbac_perms, heap>>
           ELSE /\ rbac_perms' = list_del(rbac_perms,
                       CHOOSE i \in 1..Len(rbac_perms) : rbac_perms[i] = perm)
                /\ heap' = [heap EXCEPT ![perm] = FreeCell]
                /\ ret' = 0

\* a line that prints the null object as sprintf prints a null string
PermInfo_null(perm) ==
    "[" \o ToString(perm.id) \o "]: " \o acceptability_name[perm.acc]
    \o " " \o operation_name[perm.op] \o " on " \o perm.obj \o "\n"

\* the text rbac_get_perms_info writes for one permission
PermInfo(perm) ==
    "[" \o ToString(perm.id) \o "]: " \o acceptability_name[perm.acc]
    \o " " \o operation_name[perm.op] \o " on "
    \o (IF perm.obj # NULL_OBJ THEN perm.obj ELSE "all") \o "\n"

RECURSIVE PermsInfo(_)
\* list_for_each_entry over rbac_perms, from position k on
PermsInfo(k) ==
    IF k > Len(rbac_perms) THEN ""
    ELSE PermInfo(heap[rbac_perms[k]]) \o PermsInfo(k + 1)

rbac_get_perms_info ==
    /\ ~oops
    /\ UNCHANGED task
    /\ snap' = NoSnap
    /\ call' = Call("get_perms_info", -1, "")
    /\ buf' = PermsInfo(1)
    /\ ret' = 0
    /\ UNCHANGED <<rbac_roles, rbac_perms, heap, next_perm_id, issued, oops>>

\* a loop that walks the table from its last slot down
FirstEmpty_last(role) ==
    LET S == {i \in Slots : role.perms[i] = NULL}
    IN  IF S = {} THEN ROLE_MAX_PERMS ELSE CHOOSE i \in S : \A j \in S : i >= j

\* the slot the for loop of rbac_bind_permission stops at, or
\* ROLE_MAX_PERMS when it runs to the end
FirstEmpty(role) ==
    LET S == {i \in Slots : role.perms[i] = NULL}
    IN  IF S = {} THEN ROLE_MAX_PERMS ELSE CHOOSE i \in S : \A j \in S : i <= j

\* a loop that takes the reference before it looks for a slot
bind_loop_eager(role, perm) ==
    LET i == FirstEmpty(role)
    IN  [i |-> i,
         perms |-> IF i < ROLE_MAX_PERMS
                   THEN [role.perms EXCEPT ![i] = perm] ELSE role.perms,
         inc |-> 1]

\* a loop that falls back on slot 0 when no slot is empty
bind_loop_overwrite(role, perm) ==
    LET i == IF FirstEmpty(role) = ROLE_MAX_PERMS THEN 0 ELSE FirstEmpty(role)
    IN  [i |-> i, perms |-> [role.perms EXCEPT ![i] = perm], inc |-> 1]

\* a loop that refuses a permission the role already holds
bind_loop_nodup(role, perm) ==
    LET i == FirstEmpty(role)
    IN  IF i < ROLE_MAX_PERMS /\ \A j \in Slots : role.perms[j] # perm
        THEN [i |-> i, perms |-> [role.perms EXCEPT ![i] = perm], inc |-> 1]
        ELSE [i |-> ROLE_MAX_PERMS, perms |-> role.perms, inc |-> 0]

\* the for loop of rbac_bind_permission: the value of i it ends with, the
\* slot table it leaves and the number of refcount_inc it made
bind_loop(role, perm) ==
    LET i == FirstEmpty(role)
    IN  IF i < ROLE_MAX_PERMS
        THEN [i |-> i, perms |-> [role.perms EXCEPT ![i] = perm], inc |-> 1]
        ELSE [i |-> i, perms |-> role.perms, inc |-> 0]

rbac_bind_permission(id, name) ==
    /\ ~oops
    /\ UNCHANGED task
    /\ call' = Call("bind_permission", id, name)
    /\ NoText
    /\ UNCHANGED <<rbac_perms, next_perm_id, issued, oops>>
    /\ LET perm == rbac_get_perm_by_id(id)
           role == rbac_get_role_by_name(name)
       IN  IF perm = NULL
           THEN /\ ret' = -EINVAL
                /\ UNCHANGED <<rbac_roles, heap>>
           ELSE IF role = NULL
           THEN /\ ret' = -EINVAL
                /\ UNCHANGED <<rbac_roles, heap>>
           ELSE LET l == bind_loop(rbac_roles[role], perm)
                IN  /\ heap[perm].ref + l.inc <= MaxRef
                    /\ rbac_roles' = [rbac_roles EXCEPT ![role].perms = l.perms]
                    /\ heap' = [heap EXCEPT ![perm].ref = @ + l.inc]
                    /\ ret' = IF l.i = ROLE_MAX_PERMS THEN -EINVAL ELSE 0
    /\ snap' = IF ret' = 0 THEN store ELSE NoSnap

\* an unbind that takes its number for a permission id: the first slot of
\* the role holding that permission, slot 0 if none does
unbind_slot_by_id(role, rid) ==
    LET S == {i \in Slots : role.perms[i] # NULL /\ heap[role.perms[i]].id = rid}
    IN  IF S = {} THEN 0 ELSE CHOOSE i \in S : \A j \in S : i <= j

\* an unbind that leaves the count alone
unbind_ref_kept(ref) == ref

\* refcount_dec(&perm->ref)
unbind_ref(ref) == ref - 1

\* the slot rbac_unbind_permission works on: role->perms[rid]
unbind_slot(role, rid) == rid

\* history: the slot the last call, a successful bind, filled in role r
BoundSlot(r) == CHOOSE i \in Slots : snap[1][r].perms[i] # rbac_roles[r].perms[i]

\* history: the last call was a successful bind, and this call unbinds the
\* slot it filled in the same role
Undoes(rid, name) ==
    /\ call.op = "bind_permission" /\ ret = 0
    /\ name = call.name
    /\ rid = BoundSlot(rbac_get_role_by_name(name))

\* a pointer into memory that holds no permission
WILD == MaxPerms + 1

\* what the load role->perms[slot] can yield.  Inside the table it is the
\* slot.  Outside it reads what lies beside perms[] in struct rbac_role
\* (the tail of name, ref and its padding, entry): zero bytes, or bytes
\* that are the address of no permission.
slot_word(role, slot) ==
    IF slot \in Slots THEN {role.perms[slot]} ELSE {NULL, WILD}

\* what the store role->perms[slot] = NULL leaves of the role.  Outside
\* the table it lands on a neighbour of perms[]: on ref, which follows the
\* table, or on bytes that carry nothing of the role as it is read later.
slot_clear(role, slot) ==
    IF slot \in Slots
    THEN {[role EXCEPT !.perms[slot] = NULL]}
    ELSE {[role EXCEPT !.ref = 0], role}

rbac_unbind_permission(rid, name) ==
    /\ ~oops
    /\ UNCHANGED task
    /\ snap' = IF Undoes(rid, name) THEN <<snap>> ELSE NoSnap
    /\ call' = Call("unbind_permission", rid, name)
    /\ NoText
    /\ UNCHANGED <<rbac_perms, next_perm_id, issued>>
    /\ LET role == rbac_get_role_by_name(name)
       IN  IF role = NULL
           THEN /\ ret' = -EINVAL
                /\ UNCHANGED <<rbac_roles, heap, oops>>
           ELSE LET slot == unbind_slot(rbac_roles[role], rid)
                IN  \E perm \in slot_word(rbac_roles[role], slot) :
                      IF perm = NULL
                      THEN /\ ret' = -EINVAL
                           /\ UNCHANGED <<rbac_roles, heap, oops>>
                      ELSE /\ \E cleared \in slot_clear(rbac_roles[role], slot) :
                                rbac_roles' = [rbac_roles EXCEPT ![role] = cleared]
                           /\ IF perm = WILD
                              THEN \* refcount_dec(&perm->ref) faults, or
                                   \* lowers a word that is no count
                                   /\ UNCHANGED heap
                                   /\ \/ oops' = TRUE /\ UNCHANGED ret
                                      \/ ret' = 0 /\ UNCHANGED oops
                              ELSE /\ heap' = [heap EXCEPT
                                                 ![perm].ref = unbind_ref(@)]
                                   /\ ret' = 0
                                   /\ UNCHANGED oops

Next ==
    \/ \E name \in Names : rbac_add_role(name)
    \/ \E name \in Names : rbac_remove_role(name)
    \/ rbac_get_roles_info
    \/ \E r \in Rules : rbac_add_permission(r[1], r[2], r[3])
    \/ \E id \in PermIds : rbac_remove_permission(id)
    \/ rbac_get_perms_info
    \/ \E id \in PermIds, name \in Names : rbac_bind_permission(id, name)
    \/ \E rid \in Slots, name \in Names : rbac_unbind_permission(rid, name)

\* the operations called with names of any length
NextAnyName ==
    \/ \E name \in AllNames : rbac_add_role(name)
    \/ \E name \in AllNames : rbac_remove_role(name)
    \/ rbac_get_roles_info
    \/ \E r \in Rules : rbac_add_permission(r[1], r[2], r[3])
    \/ \E id \in PermIds : rbac_remove_permission(id)
    \/ rbac_get_perms_info
    \/ \E id \in PermIds, name \in AllNames : rbac_bind_permission(id, name)
    \/ \E rid \in Slots, name \in AllNames : rbac_unbind_permission(rid, name)

\* slot numbers beside the table as well as inside it
AnySlots == (-1)..ROLE_MAX_PERMS

\* the binding operations called with any slot number, on the roles and
\* permissions that rbac_add_role and rbac_add_permission create
NextAnySlot ==
    \/ \E name \in Names : rbac_add_role(name)
    \/ \E r \in Rules : rbac_add_permission(r[1], r[2], r[3])
    \/ \E id \in PermIds : rbac_remove_permission(id)
    \/ \E id \in PermIds, name \in Names : rbac_bind_permission(id, name)
    \/ \E rid \in AnySlots, name \in Names : rbac_unbind_permission(rid, name)

\* serialized calls with arguments the interface admits
Spec == Init /\ [][Next]_vars

\* serialized calls, role names of any length
SpecAnyName == Init /\ [][NextAnyName]_vars

\* serialized calls, slot numbers of any value
SpecAnySlot == Init /\ [][NextAnySlot]_vars

(***************************************************************************)
(* Callers that are not serialized.  rbacdb.c takes no lock, so two calls  *)
(* may interleave between any two accesses to the lists.  Each task steps  *)
(* through its call; a step is one access to shared memory with the local  *)
(* computation around it.  task[t] holds the locals of the call (perm,     *)
(* role, i) and, once idle, the arguments and the return value of the      *)
(* call it finished.  rbac_remove_role and rbac_unbind_permission are not  *)
(* called here.                                                            *)
(***************************************************************************)

\* task t inside a call, at label pc
Running(pc, op, id, name, perm, role, i) ==
    [pc |-> pc, op |-> op, id |-> id, name |-> name, ret |-> 0,
     perm |-> perm, role |-> role, i |-> i]

\* the call of task record c returns r; its locals stay readable
Return(c, r) == [c EXCEPT !.pc = "idle", !.ret = r]

\* what no step of a task touches
TaskFrame == UNCHANGED <<call, ret, buf, snap>>

\* rbac_add_role up to the test of the lookup
add_role_lookup(t, name) ==
    /\ ~oops
    /\ task[t].pc = "idle"
    /\ TaskFrame
    /\ UNCHANGED <<store, issued, oops>>
    /\ task' = [task EXCEPT ![t] =
          IF rbac_get_role_by_name(name) # NULL
          THEN Idle("add_role", -1, name, -EINVAL)
          ELSE Running("add_role_insert", "add_role", -1, name, NULL, NULL, 0)]

\* rbac_add_role from kzalloc to list_add_tail
add_role_insert(t) ==
    /\ ~oops
    /\ task[t].pc = "add_role_insert"
    /\ TaskFrame
    /\ UNCHANGED <<rbac_perms, heap, next_perm_id, issued>>
    /\ \/ \* kzalloc returns NULL
          /\ task' = [task EXCEPT ![t] = Return(@, -ENOMEM)]
          /\ UNCHANGED <<rbac_roles, oops>>
       \/ /\ Len(rbac_roles) < MaxRoles
          /\ \E c \in strcpy(task[t].name) :
               IF c.trap
               THEN /\ oops' = TRUE
                    /\ UNCHANGED <<rbac_roles, task>>
               ELSE /\ rbac_roles' = Append(rbac_roles,
                          rbac_role(c.name, [i \in Slots |-> NULL], 1))
                    /\ task' = [task EXCEPT ![t] = Return(@, 0)]
                    /\ UNCHANGED oops

\* rbac_add_permission, taken as one step
add_permission_call(t, acc, op, obj) ==
    /\ ~oops
    /\ task[t].pc = "idle"
    /\ TaskFrame
    /\ UNCHANGED <<rbac_roles, oops>>
    /\ \/ \* kzalloc returns NULL
          /\ task' = [task EXCEPT ![t] = Idle("add_permission", -1, "", -ENOMEM)]
          /\ UNCHANGED <<rbac_perms, heap, next_perm_id, issued>>
       \/ /\ next_perm_id < MaxPermId
          /\ FreeAddrs # {}
          /\ LET new_perm == kzalloc
             IN  /\ heap' = [heap EXCEPT ![new_perm] =
                              rbac_permission(new_perm_id, acc, op, obj, 1)]
                 /\ rbac_perms' = Append(rbac_perms, new_perm)
          /\ issued' = Append(issued, new_perm_id)
          /\ next_perm_id' = IntInc(next_perm_id)
          /\ task' = [task EXCEPT ![t] = Idle("add_permission", -1, "", 0)]

\* rbac_remove_permission up to the test of the count
remove_permission_check(t, id) ==
    /\ ~oops
    /\ task[t].pc = "idle"
    /\ TaskFrame
    /\ UNCHANGED <<store, issued, oops>>
    /\ LET perm == rbac_get_perm_by_id(id)
       IN  task' = [task EXCEPT ![t] =
              IF perm = NULL \/ perm_busy(perm)
              THEN Idle("remove_permission", id, "", -EINVAL)
              ELSE Running("remove_permission_del", "remove_permission",
                           id, "", perm, NULL, 0)]

\* rbac_remove_permission: list_del(&perm->entry); kfree(perm).  On an
\* entry another task has unlinked already list_del follows the poisoned
\* links and faults.
remove_permission_del(t) ==
    /\ ~oops
    /\ task[t].pc = "remove_permission_del"
    /\ TaskFrame
    /\ UNCHANGED <<rbac_roles, next_perm_id, issued>>
    /\ LET perm == task[t].perm
       IN  IF OnList(rbac_perms, perm)
           THEN /\ rbac_perms' = list_del(rbac_perms,
                       CHOOSE i \in 1..Len(rbac_perms) : rbac_perms[i] = perm)
                /\ heap' = [heap EXCEPT ![perm] = FreeCell]
                /\ task' = [task EXCEPT ![t] = Return(@, 0)]
                /\ UNCHANGED oops
           ELSE /\ oops' = TRUE
                /\ UNCHANGED <<rbac_perms, heap, task>>

\* rbac_bind_permission: perm = rbac_get_perm_by_id(id)
bind_lookup_perm(t, id, name) ==
    /\ ~oops
    /\ task[t].pc = "idle"
    /\ TaskFrame
    /\ UNCHANGED <<store, issued, oops>>
    /\ LET perm == rbac_get_perm_by_id(id)
       IN  task' = [task EXCEPT ![t] =
              IF perm = NULL
              THEN Idle("bind_permission", id, name, -EINVAL)
              ELSE Running("bind_lookup_role", "bind_permission",
                           id, name, perm, NULL, 0)]

\* rbac_bind_permission: role = rbac_get_role_by_name(name)
bind_lookup_role(t) ==
    /\ ~oops
    /\ task[t].pc = "bind_lookup_role"
    /\ TaskFrame
    /\ UNCHANGED <<store, issued, oops>>
    /\ LET role == rbac_get_role_by_name(task[t].name)
       IN  task' = [task EXCEPT ![t] =
              IF role = NULL
              THEN Return(@, -EINVAL)
              ELSE [@ EXCEPT !.pc = "bind_scan", !.role = role]]

\* rbac_bind_permission: the loop test i < ROLE_MAX_PERMS and the read of
\* role->perms[i]
bind_scan(t) ==
    /\ ~oops
    /\ task[t].pc = "bind_scan"
    /\ TaskFrame
    /\ UNCHANGED <<store, issued, oops>>
    /\ LET c == task[t]
       IN  task' = [task EXCEPT ![t] =
              IF c.i = ROLE_MAX_PERMS
              THEN Return(c, -EINVAL)
              ELSE IF rbac_roles[c.role].perms[c.i] = NULL
              THEN [c EXCEPT !.pc = "bind_write"]
              ELSE [c EXCEPT !.i = c.i + 1]]

\* rbac_bind_permission: role->perms[i] = perm
bind_write(t) ==
    /\ ~oops
    /\ task[t].pc = "bind_write"
    /\ TaskFrame
    /\ UNCHANGED <<rbac_perms, heap, next_perm_id, issued, oops>>
    /\ rbac_roles' = [rbac_roles EXCEPT
                         ![task[t].role].perms[task[t].i] = task[t].perm]
    /\ task' = [task EXCEPT ![t].pc = "bind_inc"]

\* rbac_bind_permission: refcount_inc(&perm->ref), break, return.  On a
\* permission another task has freed meanwhile the increment lands in
\* released memory: the allocator's check faults, or the write is lost.
bind_inc(t) ==
    /\ ~oops
    /\ task[t].pc = "bind_inc"
    /\ TaskFrame
    /\ UNCHANGED <<rbac_roles, rbac_perms, next_perm_id, issued>>
    /\ LET perm == task[t].perm
       IN  IF OnList(rbac_perms, perm)
           THEN /\ heap[perm].ref < MaxRef
                /\ heap' = [heap EXCEPT ![perm].ref = @ + 1]
                /\ task' = [task EXCEPT ![t] = Return(@, 0)]
                /\ UNCHANGED oops
           ELSE \/ /\ oops' = TRUE
                   /\ UNCHANGED <<heap, task>>
                \/ /\ task' = [task EXCEPT ![t] = Return(@, 0)]
                   /\ UNCHANGED <<heap, oops>>

\* the rule the tasks add: no step of a task reads acc, op or obj
TaskRules == {<<ACC_DENY, OP_WRITE, "/etc/shadow">>}

NextConc ==
    \/ \E t \in Tasks, name \in Names : add_role_lookup(t, name)
    \/ \E t \in Tasks : add_role_insert(t)
    \/ \E t \in Tasks, r \in TaskRules : add_permission_call(t, r[1], r[2], r[3])
    \/ \E t \in Tasks, id \in PermIds : remove_permission_check(t, id)
    \/ \E t \in Tasks : remove_permission_del(t)
    \/ \E t \in Tasks, id \in PermIds, name \in Names : bind_lookup_perm(t, id, name)
    \/ \E t \in Tasks : bind_lookup_role(t)
    \/ \E t \in Tasks : bind_scan(t)
    \/ \E t \in Tasks : bind_write(t)
    \/ \E t \in Tasks : bind_inc(t)

\* two callers, not serialized
SpecConc == Init /\ [][NextConc]_vars

(***************************************************************************)
(* Vocabulary of the properties.                                           *)
(***************************************************************************)
\* the number of slots, over all roles of the list roles, that hold a
SlotRefs(roles, a) ==
    Cardinality({x \in (1..Len(roles)) \X Slots : roles[x[1]].perms[x[2]] = a})

\* the occupied slots of a role
Occupied(role) == {i \in Slots : role.perms[i] # NULL}

\* the roles of the list called name
Called(name) == {r \in 1..Len(rbac_roles) : rbac_roles[r].name = name}

\* the permissions of the store with this id
WithId(id) == {a \in Addrs : OnList(rbac_perms, a) /\ heap[a].id = id}

Mutators == {"add_role", "remove_role", "add_permission",
             "remove_permission", "bind_permission", "unbind_permission"}

(***************************************************************************)
(* C1: every permission of the store has a reference count of 1 plus the   *)
(* number of role slots that reference it.                                 *)
(***************************************************************************)
C1_RefCountIsOnePlusSlots ==
    \A a \in Addrs :
        OnList(rbac_perms, a) => heap[a].ref = 1 + SlotRefs(rbac_roles, a)

(***************************************************************************)
(* C2: every occupied slot of every role references a permission that is   *)
(* on the permission list.                                                 *)
(***************************************************************************)
C2_SlotsReferenceStoredPerms ==
    \A r \in 1..Len(rbac_roles) : \A i \in Occupied(rbac_roles[r]) :
        OnList(rbac_perms, rbac_roles[r].perms[i])

\* a bind has just put a stored permission into a slot
C2_Witness ==
    /\ call.op = "bind_permission" /\ ret = 0
    /\ \E r \in Called(call.name) : \E i \in Occupied(rbac_roles[r]) :
          rbac_roles[r].perms[i] \in WithId(call.id)

(***************************************************************************)
(* C3: removing an existing permission succeeds exactly when its reference *)
(* count is 1; a failed removal leaves it in the store.  A successful bind *)
(* leaves the count above 1, and only a successful unbind lowers the count *)
(* of a stored permission, by one.                                         *)
(***************************************************************************)
C3_RemoveIffCountIsOne ==
    [][ /\ \A a \in WithId(call'.id) :
              call'.op = "remove_permission" =>
                 /\ (ret' = 0) <=> (heap[a].ref = 1)
                 /\ ret' = 0 => ~OnList(rbac_perms', a)
                 /\ ret' # 0 => /\ ret' = -EINVAL
                                /\ OnList(rbac_perms', a)
                                /\ store' = store
        /\ call'.op = "bind_permission" /\ ret' = 0 =>
              \A a \in WithId(call'.id) :
                  heap'[a].ref = heap[a].ref + 1 /\ heap'[a].ref > 1
        /\ \A a \in Addrs :
              /\ OnList(rbac_perms, a) /\ OnList(rbac_perms', a)
              /\ heap'[a].ref < heap[a].ref
              => /\ call'.op = "unbind_permission" /\ ret' = 0
                 /\ heap'[a].ref = heap[a].ref - 1
      ]_vars

\* a removal has just failed on a permission that sits in a slot
C3_Witness ==
    /\ call.op = "remove_permission" /\ ret = -EINVAL
    /\ \E a \in WithId(call.id) : SlotRefs(rbac_roles, a) > 0

(***************************************************************************)
(* C4: the ids rbac_add_permission hands out start at 0 and are strictly   *)
(* increasing, so none is handed out twice, and the stored permissions     *)
(* carry pairwise distinct ids that were handed out.                       *)
(***************************************************************************)
C4_IdsStrictlyIncreasing ==
    /\ Len(issued) > 0 => issued[1] = 0
    /\ \A j, k \in 1..Len(issued) : j < k => issued[j] < issued[k]
    /\ \A a \in Addrs : OnList(rbac_perms, a) =>
          /\ \E k \in 1..Len(issued) : issued[k] = heap[a].id
          /\ \A b \in Addrs : OnList(rbac_perms, b) /\ heap[b].id = heap[a].id
                => a = b

\* a permission was added after the one holding a lower id had been removed
C4_Witness ==
    /\ call.op = "add_permission" /\ ret = 0
    /\ Len(issued) = 2 /\ Len(rbac_perms) = 1
    /\ heap[rbac_perms[1]].id = issued[2]

(***************************************************************************)
(* C5: no two roles of the list share a name, and rbac_add_role called     *)
(* with a name that is on the list returns -EINVAL and leaves the store    *)
(* as it was.                                                              *)
(***************************************************************************)
C5_RoleNamesUnique ==
    [][ /\ \A i, j \in 1..Len(rbac_roles') :
              rbac_roles'[i].name = rbac_roles'[j].name => i = j
        /\ call'.op = "add_role" /\ Called(call'.name) # {} =>
              ret' = -EINVAL /\ store' = store
      ]_vars

\* a second role of the same name was refused, the name being that of
\* the second role of the list
C5_Witness ==
    /\ call.op = "add_role" /\ ret = -EINVAL
    /\ Len(rbac_roles) = 2 /\ rbac_roles[2].name = call.name

(***************************************************************************)
(* C6: a successful bind occupies one more slot of the role, a bind to a   *)
(* role whose ROLE_MAX_PERMS slots are all occupied returns -EINVAL and    *)
(* changes nothing, whatever the id, and the slot table of a role is       *)
(* always the ROLE_MAX_PERMS slots.                                        *)
(***************************************************************************)
C6_FullRoleRefusesBind ==
    [][ /\ \A r \in 1..Len(rbac_roles') : DOMAIN rbac_roles'[r].perms = Slots
        /\ call'.op = "bind_permission" =>
              \A r \in Called(call'.name) :
                 /\ Cardinality(Occupied(rbac_roles[r])) = ROLE_MAX_PERMS =>
                       ret' = -EINVAL /\ store' = store
                 /\ ret' = 0 =>
                       Cardinality(Occupied(rbac_roles'[r])) =
                          Cardinality(Occupied(rbac_roles[r])) + 1
      ]_vars

\* a bind to a full role was refused, the permission being a stored one
\* that the role does not hold
C6_Witness ==
    /\ call.op = "bind_permission" /\ ret = -EINVAL
    /\ \E r \in Called(call.name) : \E a \in WithId(call.id) :
          /\ Occupied(rbac_roles[r]) = Slots
          /\ \A i \in Slots : rbac_roles[r].perms[i] # a

(***************************************************************************)
(* C7: a mutating call that returns an error leaves the role list, the     *)
(* permission list, every slot, every reference count and next_perm_id as  *)
(* they were.                                                              *)
(***************************************************************************)
C7_ErrorLeavesStoreUnchanged ==
    [][ call'.op \in Mutators /\ ret' # 0 => store' = store ]_vars

\* a bind of a stored permission to an existing role has failed
C7_Witness ==
    /\ call.op = "bind_permission" /\ ret # 0
    /\ Called(call.name) # {} /\ WithId(call.id) # {}

RECURSIVE SlotLines(_, _)
\* one "\tperm[<slot>]\n" line per occupied slot of the role, from slot i on
SlotLines(role, i) ==
    IF i >= ROLE_MAX_PERMS THEN ""
    ELSE (IF i \in Occupied(role) THEN "\tperm[" \o ToString(i) \o "]\n" ELSE "")
         \o SlotLines(role, i + 1)

\* the block of one role in the report the interface describes
RoleBlock(role) ==
    IF Occupied(role) = {}
    THEN role.name \o " with no permission bind\n"
    ELSE role.name \o "\n" \o SlotLines(role, 0)

RECURSIVE RoleBlocks(_)
\* the blocks of the roles from position k on, in list order
RoleBlocks(k) ==
    IF k > Len(rbac_roles) THEN ""
    ELSE RoleBlock(rbac_roles[k]) \o RoleBlocks(k + 1)

(***************************************************************************)
(* C8: the text of rbac_get_roles_info is, for each role in list order,    *)
(* the name, then one perm[<slot>] line per occupied slot, with            *)
(* " with no permission bind" after the name exactly when no slot of the   *)
(* role is occupied.                                                       *)
(***************************************************************************)
C8_RolesInfoAsDescribed ==
    call.op = "get_roles_info" => buf = RoleBlocks(1)

(***************************************************************************)
(* C9: rbac_unbind_permission takes its number for a slot of the named     *)
(* role.  If the slot is occupied the call returns 0, empties that slot    *)
(* and lowers by one the count of the permission that was in it, leaving   *)
(* all else as it was; if the slot is empty it returns -EINVAL and changes *)
(* nothing.                                                                *)
(***************************************************************************)
C9_UnbindAddressesSlot ==
    [][ call'.op = "unbind_permission" =>
          \A r \in Called(call'.name) :
             IF rbac_roles[r].perms[call'.id] = NULL
             THEN ret' = -EINVAL /\ store' = store
             ELSE /\ ret' = 0
                  /\ rbac_roles' =
                        [rbac_roles EXCEPT ![r].perms[call'.id] = NULL]
                  /\ heap' = [heap EXCEPT
                                ![rbac_roles[r].perms[call'.id]].ref = @ - 1]
                  /\ rbac_perms' = rbac_perms
                  /\ next_perm_id' = next_perm_id
      ]_vars

\* an unbind has succeeded on a number that is the id of no stored
\* permission, while the store holds one
C9_Witness ==
    /\ call.op = "unbind_permission" /\ ret = 0
    /\ WithId(call.id) = {} /\ Len(rbac_perms) > 0

\* an unbind has failed on an empty slot whose number is the id of a
\* permission the role holds in another slot
C9_WitnessEmptySlot ==
    /\ call.op = "unbind_permission" /\ ret = -EINVAL
    /\ \E r \in Called(call.name) : \E i \in Occupied(rbac_roles[r]) :
          /\ rbac_roles[r].perms[call.id] = NULL
          /\ heap[rbac_roles[r].perms[i]].id = call.id

(***************************************************************************)
(* C10: rbac_add_role called with a name that does not fit the name field  *)
(* returns an error and leaves the store as it was.                        *)
(***************************************************************************)
C10_LongNameRefused ==
    [][ call'.op = "add_role" /\ Len(call'.name) >= ROLE_NAME_LEN =>
          ~oops' /\ ret' # 0 /\ store' = store
      ]_vars

\* the lowest empty slot of a role that has one
LowestEmpty(role) ==
    CHOOSE i \in Slots :
        role.perms[i] = NULL /\ \A j \in Slots : j < i => role.perms[j] # NULL

\* the slots of a role that hold a
Holding(role, a) == {i \in Slots : role.perms[i] = a}

\* the part of the count of a that no slot of the list roles accounts for
Excess(roles, hp, a) == hp[a].ref - 1 - SlotRefs(roles, a)

\* the role list without its r-th entry
Without(roles, r) ==
    [k \in 1..(Len(roles) - 1) |-> IF k < r THEN roles[k] ELSE roles[k + 1]]

(***************************************************************************)
(* C12: a successful bind writes the permission into the lowest empty slot *)
(* of the named role and raises the count of that permission by one; the   *)
(* other slots, the other roles, the other counts, both lists and          *)
(* next_perm_id stay as they were.                                         *)
(***************************************************************************)
C12_BindWritesLowestEmptySlot ==
    [][ call'.op = "bind_permission" /\ ret' = 0 =>
          \A r \in Called(call'.name) : \A a \in WithId(call'.id) :
             /\ rbac_roles' = [rbac_roles EXCEPT
                   ![r].perms[LowestEmpty(rbac_roles[r])] = a]
             /\ heap' = [heap EXCEPT ![a].ref = @ + 1]
             /\ rbac_perms' = rbac_perms
             /\ next_perm_id' = next_perm_id
      ]_vars

\* a bind has filled slot 0 of a role that had a higher slot occupied
C12_Witness ==
    /\ call.op = "bind_permission" /\ ret = 0 /\ snap # NoSnap
    /\ \E r \in Called(call.name) :
          /\ snap[1][r].perms[0] = NULL
          /\ Occupied(snap[1][r]) # {}
          /\ rbac_roles[r].perms[0] \in WithId(call.id)

(***************************************************************************)
(* C13: a bind of a stored permission to a role with an empty slot         *)
(* succeeds also when the role already holds that permission: the role     *)
(* then holds it in one more slot and its count is one higher.  While a    *)
(* slot holds a permission its count exceeds 1 by at least the number of   *)
(* slots holding it, and its removal returns -EINVAL.                      *)
(***************************************************************************)
C13_BindHasNoDuplicateCheck ==
    [][ /\ call'.op = "bind_permission" =>
              \A r \in Called(call'.name) : \A a \in WithId(call'.id) :
                 Occupied(rbac_roles[r]) # Slots =>
                    /\ ret' = 0
                    /\ Cardinality(Holding(rbac_roles'[r], a)) =
                          Cardinality(Holding(rbac_roles[r], a)) + 1
                    /\ heap'[a].ref = heap[a].ref + 1
        /\ \A a \in Addrs : OnList(rbac_perms', a) =>
              heap'[a].ref >= 1 + SlotRefs(rbac_roles', a)
        /\ call'.op = "remove_permission" =>
              \A a \in WithId(call'.id) :
                 SlotRefs(rbac_roles, a) > 0 =>
                    ret' = -EINVAL /\ OnList(rbac_perms', a)
      ]_vars

\* a bind has put a permission into the last slot of a role whose other
\* slots all hold that same permission
C13_Witness ==
    /\ call.op = "bind_permission" /\ ret = 0
    /\ \E r \in Called(call.name) : \E a \in WithId(call.id) :
          /\ Holding(rbac_roles[r], a) = Slots
          /\ heap[a].ref = 1 + ROLE_MAX_PERMS

(***************************************************************************)
(* C14: rbac_remove_role changes no permission count.  The removal of a    *)
(* role leaves every permission that sat in its slots with a count that    *)
(* no slot accounts for; such a permission stays in the store with that    *)
(* excess, and its removal returns -EINVAL, from then on.                  *)
(***************************************************************************)
C14_RemovedRoleLeavesCounts ==
    [][ /\ call'.op = "remove_role" => heap' = heap
        /\ call'.op = "remove_role" /\ ret' = 0 =>
              \A r \in Called(call'.name) : \A i \in Occupied(rbac_roles[r]) :
                 Excess(rbac_roles', heap', rbac_roles[r].perms[i]) > 0
        /\ \A a \in Addrs :
              OnList(rbac_perms, a) /\ Excess(rbac_roles, heap, a) > 0 =>
                 /\ OnList(rbac_perms', a)
                 /\ heap'[a].id = heap[a].id
                 /\ Excess(rbac_roles', heap', a) >= Excess(rbac_roles, heap, a)
                 /\ call'.op = "remove_permission" /\ call'.id = heap[a].id =>
                       ret' = -EINVAL
      ]_vars

\* the removal of a permission that sits in no slot has been refused
C14_Witness ==
    /\ call.op = "remove_permission" /\ ret = -EINVAL
    /\ \E a \in WithId(call.id) : SlotRefs(rbac_roles, a) = 0

(***************************************************************************)
(* C15: every role of the list has a count of 1; rbac_remove_role of a     *)
(* name on the list returns 0 and takes that role off the list, whatever   *)
(* its slots hold, and of a name not on the list returns -EINVAL and       *)
(* changes nothing.                                                        *)
(***************************************************************************)
C15_RoleCountIsOne ==
    [][ /\ \A r \in 1..Len(rbac_roles') : rbac_roles'[r].ref = 1
        /\ call'.op = "remove_role" =>
              IF Called(call'.name) = {}
              THEN ret' = -EINVAL /\ store' = store
              ELSE /\ ret' = 0
                   /\ \E r \in Called(call'.name) :
                         rbac_roles' = Without(rbac_roles, r)
      ]_vars

\* a role has been removed, and a permission is left with a count that no
\* slot accounts for
C15_Witness ==
    /\ call.op = "remove_role" /\ ret = 0
    /\ \E a \in Addrs : OnList(rbac_perms, a) /\ Excess(rbac_roles, heap, a) > 0

\* the line of one permission in the report the interface describes
PermLine(perm) ==
    "[" \o ToString(perm.id) \o "]: "
    \o (CASE perm.acc = ACC_ACCEPT -> "accept" [] perm.acc = ACC_DENY -> "deny")
    \o " "
    \o (CASE perm.op = OP_READ -> "read" [] perm.op = OP_WRITE -> "write")
    \o " on "
    \o (IF perm.obj = NULL_OBJ THEN "all" ELSE perm.obj)
    \o "\n"

RECURSIVE PermLinesFrom(_)
\* the lines of the permissions from list position k on
PermLinesFrom(k) ==
    IF k > Len(rbac_perms) THEN ""
    ELSE PermLine(heap[rbac_perms[k]]) \o PermLinesFrom(k + 1)

(***************************************************************************)
(* C18: the permission list is in creation order, that is by strictly      *)
(* increasing id, and the text of rbac_get_perms_info is one line          *)
(* "[<id>]: <accept|deny> <read|write> on <object>" per permission of the  *)
(* list, in list order, with "all" for a permission without object.        *)
(***************************************************************************)
C18_PermsInfoAsDescribed ==
    /\ \A j, k \in 1..Len(rbac_perms) :
          j < k => heap[rbac_perms[j]].id < heap[rbac_perms[k]].id
    /\ \A j \in 1..Len(rbac_perms) : \A k \in 1..Len(issued) :
          (issued[k] = heap[rbac_perms[j]].id) =>
             \A m \in 1..Len(rbac_perms) :
                j < m => \E n \in 1..Len(issued) :
                            k < n /\ issued[n] = heap[rbac_perms[m]].id
    /\ call.op = "get_perms_info" => buf = PermLinesFrom(1)

\* two permissions have been listed, the second one without object
C18_Witness ==
    /\ call.op = "get_perms_info"
    /\ Len(rbac_perms) = 2
    /\ heap[rbac_perms[2]].obj = NULL_OBJ
    /\ heap[rbac_perms[1]].obj # NULL_OBJ

\* one permission has been listed after the removal of an earlier one
C18_WitnessAfterRemoval ==
    /\ call.op = "get_perms_info"
    /\ Len(rbac_perms) = 1 /\ heap[rbac_perms[1]].id > 0

(***************************************************************************)
(* C20: an unbind, right after a successful bind, of the slot that bind    *)
(* filled in the same role returns 0 and leaves the store exactly as it    *)
(* was before the bind.                                                    *)
(***************************************************************************)
C20_BindUnbindRoundTrip ==
    call.op = "unbind_permission" /\ snap # NoSnap =>
        ret = 0 /\ store = snap[1]

\* a bind has been undone in a role that keeps another slot occupied
C20_Witness ==
    /\ call.op = "unbind_permission" /\ snap # NoSnap /\ ret = 0
    /\ \E r \in Called(call.name) :
          /\ rbac_roles[r].perms[call.id] = NULL
          /\ Occupied(rbac_roles[r]) # {}

(***************************************************************************)
(* C19: rbac_unbind_permission called with a slot number outside the       *)
(* table, for a role on the list, returns an error and leaves the store    *)
(* as it was.                                                              *)
(***************************************************************************)
C19_UnbindOutsideTableRefused ==
    [][ /\ call'.op = "unbind_permission"
        /\ call'.id \notin Slots
        /\ Called(call'.name) # {}
        => ~oops' /\ ret' # 0 /\ store' = store
      ]_vars

\* task t is idle and its last call was op, which returned 0
Succeeded(t, op) ==
    task[t].pc = "idle" /\ task[t].op = op /\ task[t].ret = 0

(***************************************************************************)
(* C11: with two tasks calling rbac_add_role at the same time, no two      *)
(* roles of the list share a name, and no two calls for one name both      *)
(* return 0.                                                               *)
(***************************************************************************)
C11_ConcurrentAddRoleUnique ==
    /\ \A n \in Names : Cardinality(Called(n)) <= 1
    /\ \A s, t \in Tasks :
          /\ s # t
          /\ Succeeded(s, "add_role") /\ Succeeded(t, "add_role")
          => task[s].name # task[t].name

(***************************************************************************)
(* C16: with rbac_remove_permission and rbac_bind_permission running at    *)
(* the same time, no slot of a role holds the address of a permission      *)
(* that has been unlinked from the permission list and freed.              *)
(***************************************************************************)
C16_NoSlotOfRemovedPermission ==
    \A a \in Addrs :
        (\E r \in 1..Len(rbac_roles) : Holding(rbac_roles[r], a) # {})
        => OnList(rbac_perms, a) /\ heap[a] # FreeCell

(***************************************************************************)
(* C17: when two tasks have each returned 0 from rbac_bind_permission on   *)
(* the same role, each wrote a slot of its own, that slot holds the        *)
(* permission it bound, and every permission of the store counts 1 plus    *)
(* the slots that reference it.                                            *)
(***************************************************************************)
C17_ConcurrentBindsOwnSlots ==
    \A s, t \in Tasks :
        /\ s # t
        /\ Succeeded(s, "bind_permission") /\ Succeeded(t, "bind_permission")
        /\ task[s].role = task[t].role
        => /\ task[s].i # task[t].i
           /\ rbac_roles[task[s].role].perms[task[s].i] = task[s].perm
           /\ \A a \in Addrs : OnList(rbac_perms, a) =>
                 heap[a].ref = 1 + SlotRefs(rbac_roles, a)

====
